---- MODULE Spec2Model ----
(***************************************************************************)
(* qsiprep reconstruction workflows: the spec-to-pipeline compiler.        *)
(*                                                                         *)
(*   build_workflow.py  init_dwi_recon_workflow, workflow_from_spec,       *)
(*                      _check_repeats, _as_connections                    *)
(*   base.py            init_single_subject_wf (one build per dwi file,    *)
(*                      all builds sharing one loaded spec)                *)
(*                                                                         *)
(* The workflow engine (qsiprep.engine.Workflow), the per-backend builders *)
(* (init_*_wf) and qsiprep.interfaces.interchange are not part of the      *)
(* files modelled here.  They are modelled from the design document:       *)
(* a Pipeline holds units by name and a set of connections, a slot may be  *)
(* filled at most once, a connection to a slot the unit does not declare   *)
(* lands on an unused port.  Those definitions are marked in the map.      *)
(***************************************************************************)
EXTENDS Integers, Sequences, FiniteSets, TLC

\* Bounds of the model.
MaxNodes == 2
MaxScans == 2

\* A key the JSON object does not carry (dict.get falls back, dict[...] raises).
Absent == "<absent>"
\* workflow_from_spec returned from none of its branches: it reaches its raise.
None == "<None>"

-----------------------------------------------------------------------------
(* Strings, as Python computes on them.                                    *)

\* str.startswith
StartsWith(s, p) == Len(s) >= Len(p) /\ SubSeq(s, 1, Len(p)) = p

\* the `in` operator on strings
Contains(s, p) ==
    \E k \in 1..(Len(s) - Len(p) + 1) : SubSeq(s, k, k + Len(p) - 1) = p

\* node.split('.')[-1]
LastComponent(s) ==
    LET dots == {k \in 1..Len(s) : SubSeq(s, k, k) = "."}
        last == CHOOSE k \in dots : \A j \in dots : j <= k
    IN  IF dots = {} THEN s ELSE SubSeq(s, last + 1, Len(s))

\* '.'.join((unit, leaf)) of list_node_names
Dotted(unit, leaf) == unit \o "." \o leaf

-----------------------------------------------------------------------------
(* Parameter mappings: sets of <<key, value>> with one value per key.      *)

\* parameters[k] = v
SetItem(m, k, v) == {q \in m : q[1] # k} \cup {<<k, v>>}

\* node_spec.get("parameters", {})
GetParameters(node_spec) ==
    IF node_spec.hasParameters THEN node_spec.parameters ELSE {}

\* node_spec.get(key, default) for the string-valued keys
GetOr(value, default) == IF value = Absent THEN default ELSE value

-----------------------------------------------------------------------------
(* interfaces.interchange and the builders' declared ports.                *)

recon_workflow_input_fields == {"dwi_file", "bval", "mask"}

default_input_set == recon_workflow_input_fields

\* the input slots a built unit's inputnode declares
BuilderInputs(builder) ==
    CASE builder = "init_conform_dwi_wf"         -> {"dwi_file", "bval", "mask"}
      [] builder = "init_mrtrix_csd_recon_wf"    -> {"conformed_dwi", "dwi_file", "bval"}
      [] builder = "init_mrtrix_tractography_wf" -> {"fod", "dwi_file"}
      [] OTHER                                   -> recon_workflow_input_fields

\* the output slots a built unit's outputnode declares
BuilderOutputs(builder) ==
    CASE builder = "init_conform_dwi_wf"         -> {"conformed_dwi", "dwi_file"}
      [] builder = "init_mrtrix_csd_recon_wf"    -> {"fod", "odf"}
      [] builder = "init_mrtrix_tractography_wf" -> {"tck"}
      [] OTHER                                   -> {}

\* the nodes inside a built unit, besides its inputnode and outputnode
BuilderLeaves(builder) ==
    CASE builder = "init_conform_dwi_wf"         -> <<"conform_dwi", "ds_conformed", "plot_report">>
      [] builder = "init_mrtrix_csd_recon_wf"    -> <<"estimate_fod", "ds_report_odfs", "dsreport">>
      [] builder = "init_mrtrix_tractography_wf" -> <<"tracking", "ds_tck", "dsmerge">>
      [] OTHER                                   -> <<>>

UnitLeaves(builder) == <<"inputnode", "outputnode">> \o BuilderLeaves(builder)

-----------------------------------------------------------------------------
(* workflow_from_spec: the dispatch on (software, action).                  *)

DsiStudioAction(action) ==
    CASE action = "reconstruction" -> "init_dsi_studio_recon_wf"
      [] action = "export"         -> "init_dsi_studio_export_wf"
      [] action = "tractography"   -> "init_dsi_studio_tractography_wf"
      [] action = "connectivity"   -> "init_dsi_studio_connectivity_wf"
      [] action = "autotrack"      -> "init_dsi_studio_autotrack_wf"
      [] OTHER                     -> None

MrtrixAction(action) ==
    CASE action = "csd"                 -> "init_mrtrix_csd_recon_wf"
      [] action = "global_tractography" -> "init_global_tractography_wf"
      [] action = "tractography"        -> "init_mrtrix_tractography_wf"
      [] action = "connectivity"        -> "init_mrtrix_connectivity_wf"
      [] OTHER                          -> None

DipyAction(action) ==
    CASE action = "3dSHORE_reconstruction" -> "init_dipy_brainsuite_shore_recon_wf"
      [] action = "MAPMRI_reconstruction"  -> "init_dipy_mapmri_recon_wf"
      [] action = "DKI_reconstruction"     -> "init_dipy_dki_recon_wf"
      [] OTHER                             -> None

AmicoAction(action) ==
    IF action = "fit_noddi" THEN "init_amico_noddi_fit_wf" ELSE None

PyAfqAction(action) ==
    IF action = "pyafq_tractometry" THEN "init_pyafq_wf" ELSE None

QsiprepAction(action) ==
    CASE action = "controllability"             -> "init_controllability_wf"
      [] action = "discard_repeated_samples"    -> "init_discard_repeated_samples_wf"
      [] action = "conform"                     -> "init_conform_dwi_wf"
      [] action = "mif_to_fib"                  -> "init_mif_to_fibgz_wf"
      [] action = "reorient_fslstd"             -> "init_qsiprep_to_fsl_wf"
      [] action = "steinhardt_order_parameters" -> "init_steinhardt_order_param_wf"
      [] OTHER                                  -> None

\* the if / elif chain on software; its last branch is a bare else
Dispatch(software, action) ==
    IF software = "DSI Studio" THEN DsiStudioAction(action)
    ELSE IF software = "MRTrix3" THEN MrtrixAction(action)
    ELSE IF software = "Dipy" THEN DipyAction(action)
    ELSE IF software = "AMICO" THEN AmicoAction(action)
    ELSE IF software = "pyAFQ" THEN PyAfqAction(action)
    ELSE QsiprepAction(action)

\* The outcome of workflow_from_spec on one node: the parameters it hands to
\* the builder, what it leaves in the node's own "parameters", and either
\* the unit built or the exception raised.
ParametersSeen(node_spec, skip) ==
    IF skip THEN SetItem(GetParameters(node_spec), "plot_reports", FALSE)
    ELSE GetParameters(node_spec)

\* parameters is the spec's own dict when the key is present: the item
\* assignment writes through to it
NodeSpecAfter(node_spec, skip) ==
    IF skip /\ node_spec.hasParameters
    THEN [node_spec EXCEPT !.parameters = SetItem(@, "plot_reports", FALSE)]
    ELSE node_spec

WorkflowFromSpecError(node_spec) ==
    IF node_spec.action = Absent THEN "KeyError"
    ELSE IF Dispatch(GetOr(node_spec.software, "qsiprep"), node_spec.action) = None
    THEN "UnknownNode"
    ELSE "ok"

WorkflowFromSpecUnit(node_spec, skip) ==
    [name    |-> node_spec.name,
     builder |-> Dispatch(GetOr(node_spec.software, "qsiprep"), node_spec.action),
     params  |-> ParametersSeen(node_spec, skip)]

-----------------------------------------------------------------------------
(* The workflow engine: units by name, the global source, connections.      *)

\* _as_connections
_as_connections(attr_list, src_prefix, dest_prefix) ==
    {<<src_prefix \o item, dest_prefix \o item>> : item \in attr_list}

\* one (srcnode, destnode, [(source, dest), ...]) entry of a connect call
Connections(srcnode, destnode, pairs) ==
    {[src |-> srcnode, srcSlot |-> p[1], dst |-> destnode, dstSlot |-> p[2]] :
        p \in pairs}

\* connect refuses a destination slot that is already filled
ConnectClash(existing, new) ==
    \/ \E c \in new : \E d \in existing : d.dst = c.dst /\ d.dstSlot = c.dstSlot
    \/ \E c, d \in new : c # d /\ d.dst = c.dst /\ d.dstSlot = c.dstSlot

\* the names of the nodes inside one unit
LeafNames(u) ==
    [k \in 1..Len(UnitLeaves(u.builder)) |-> Dotted(u.name, UnitLeaves(u.builder)[k])]

RECURSIVE UnitNames(_)
UnitNames(us) ==
    IF us = <<>> THEN <<>> ELSE LeafNames(Head(us)) \o UnitNames(Tail(us))

\* workflow.list_node_names(): the global source once it has been connected,
\* and every node inside every unit
list_node_names(us, hasIn) ==
    (IF hasIn THEN <<"inputnode">> ELSE <<>>) \o UnitNames(us)

\* workflow.get_node(name): the position of the unit, 0 for None
get_node(us, name) ==
    IF \E k \in 1..Len(us) : us[k].name = name
    THEN CHOOSE k \in 1..Len(us) :
            us[k].name = name /\ \A j \in 1..(k - 1) : us[j].name # name
    ELSE 0

Range(s) == {s[k] : k \in 1..Len(s)}

\* _check_repeats with the comparison dropped: it never raises
_check_repeats_never(nodelist) == TRUE

\* _check_repeats: TRUE when it returns, FALSE when it raises
_check_repeats(nodelist) == Len(nodelist) = Cardinality(Range(nodelist))

-----------------------------------------------------------------------------
(* The connection router (Pass 2) and the sink classification.              *)

\* the upstream part without the intersection with the destination's inputs
connect_from_upstream_all(upstream_outputs, downstream_inputs) ==
    upstream_outputs

connect_from_upstream(upstream_outputs, downstream_inputs) ==
    upstream_outputs \cap downstream_inputs

\* the global part without the subtraction of the upstream part
connect_from_qsiprep_all(from_upstream) == default_input_set

connect_from_qsiprep(from_upstream) == default_input_set \ from_upstream

\* node_spec.get('input', 'qsiprep') == 'qsiprep'
IsGlobalInput(node_spec) == GetOr(node_spec.input, "qsiprep") = "qsiprep"

\* the global wiring with dest_prefix left at its default ''
GlobalConnectionsUnprefixed(node_name) ==
    Connections("inputnode", node_name,
                _as_connections(recon_workflow_input_fields, "", ""))

GlobalConnections(node_name) ==
    Connections("inputnode", node_name,
                _as_connections(recon_workflow_input_fields, "", "inputnode."))

QsiprepConnections(node_name, from_upstream) ==
    Connections("inputnode", node_name,
                _as_connections(connect_from_qsiprep(from_upstream), "", "inputnode."))

UpstreamConnections(upstream_name, node_name, from_upstream) ==
    Connections(upstream_name, node_name,
                _as_connections(from_upstream, "outputnode.", "inputnode."))

IsSink(node) == StartsWith(LastComponent(node), "ds")

IsReportlet(node) == Contains(LastComponent(node), "report")

\* the source_file test with the looser prefix of the sink test
IsSourcedLoose(node) == StartsWith(LastComponent(node), "ds")

IsSourced(node) == StartsWith(LastComponent(node), "ds_")

SinkBaseDir(node) == IF IsReportlet(node) THEN "reportlets_dir" ELSE "output_dir"

SinkConnections(names) ==
    {[src |-> "inputnode", srcSlot |-> "dwi_file", dst |-> n, dstSlot |-> "source_file"] :
        n \in {m \in names : IsSink(m) /\ IsSourced(m)}}

SinkDirs(names) == {<<n, SinkBaseDir(n)>> : n \in {m \in names : IsSink(m)}}

-----------------------------------------------------------------------------
(* The specs the runs are drawn from.                                        *)

NodeSpec(name, software, action, hasParameters, parameters, input) ==
    [name |-> name, software |-> software, action |-> action,
     hasParameters |-> hasParameters, parameters |-> parameters, input |-> input]

NodeNames == {"n1", "n2"}

\* nodes that resolve: the internal backend by default, and two MRTrix3 actions
ResolvableNodes ==
    {NodeSpec(n, sa[1], sa[2], FALSE, {}, inp) :
        n \in NodeNames,
        sa \in {<<Absent, "conform">>, <<"MRTrix3", "csd">>, <<"MRTrix3", "tractography">>},
        inp \in {Absent} \cup NodeNames}

\* nodes that spell the optional keys out
ExplicitNodes ==
    {NodeSpec("n1", "qsiprep", "conform", FALSE, {}, "qsiprep"),
     NodeSpec("n1", Absent, "conform", TRUE, {}, Absent),
     NodeSpec("n2", "MRTrix3", "csd", TRUE, {<<"plot_reports", TRUE>>}, "n1"),
     NodeSpec("n3", "MRTrix3", "tractography", FALSE, {}, "n2"),
     NodeSpec("n3", Absent, "conform", FALSE, {}, Absent),
     NodeSpec("n1", Absent, "conform", FALSE, {}, "n3")}

\* nodes with a missing or empty name, a missing action, an unregistered pair
OddNodes ==
    {NodeSpec(Absent, Absent, "conform", FALSE, {}, Absent),
     NodeSpec("", Absent, "conform", TRUE, {}, Absent),
     NodeSpec("n1", Absent, Absent, TRUE, {}, Absent),
     NodeSpec("n1", "MRTrix3", "conform", FALSE, {}, Absent),
     NodeSpec("n2", Absent, "csd", TRUE, {}, Absent),
     NodeSpec("n2", "FSL", "conform", FALSE, {}, Absent)}

NodeSpecs == ResolvableNodes \cup ExplicitNodes \cup OddNodes

WorkflowSpecs == UNION {[1..n -> NodeSpecs] : n \in 0..MaxNodes}

-----------------------------------------------------------------------------
VARIABLES
    workflow_spec,    \* spec['nodes'], the one object every build reads
    loaded_spec,      \* spec['nodes'] as _load_recon_spec returned it
    skip_odf_plots,
    dwi_files,        \* how many scans matched the spec's space
    scan,             \* the scan whose recon workflow is being built
    pc,
    i,                \* position in the loop over workflow_spec['nodes']
    nodes_to_add,
    units,            \* the units in the recon workflow's graph
    has_inputnode,    \* whether inputnode is in the recon workflow's graph
    conns,
    base_directory,   \* <<node, directory>> for every node given one
    checks,           \* calls of _check_repeats in this build
    err,
    subject_nodes,    \* the nodes of the subject's workflow
    first_build       \* what an earlier call of init_dwi_recon_workflow returned

vars == <<workflow_spec, loaded_spec, skip_odf_plots, dwi_files, scan, pc, i,
          nodes_to_add, units, has_inputnode, conns, base_directory, checks,
          err, subject_nodes, first_build>>

inputs == <<loaded_spec, skip_odf_plots, dwi_files>>
\* no call recorded: the builder keeps nothing from one call to the next
NoBuild == [done |-> FALSE, nodes |-> <<>>, units |-> {}, conns |-> {}]
build == <<nodes_to_add, units, has_inputnode, conns, base_directory, checks>>

Init ==
    /\ workflow_spec \in WorkflowSpecs
    /\ loaded_spec = workflow_spec
    /\ skip_odf_plots \in BOOLEAN
    /\ dwi_files \in 0..MaxScans
    /\ scan = 0
    /\ pc = "subject"
    /\ i = 0
    /\ nodes_to_add = <<>>
    /\ units = <<>>
    /\ has_inputnode = FALSE
    /\ conns = {}
    /\ base_directory = {}
    /\ checks = 0
    /\ err = "none"
    /\ subject_nodes = {}
    /\ first_build = NoBuild

\* An exception leaves init_dwi_recon_workflow and init_single_subject_wf:
\* nothing is returned.  err names the raise:
\*   "KeyError"           node_spec['name'] or node_spec['action'] on a missing key
\*   "NoName"             raise Exception("Node has no name ...")
\*   "UnknownNode"        raise Exception("Unknown node ...")
\*   "DuplicateNodeName"  the raise of _check_repeats
\*   "AttributeError"     upstream_outputnode.outputs on the None get_node returned
\*   "DuplicateConnection" the engine's refusal to fill a slot twice
Raise(e) == pc' = "failed" /\ err' = e

\* init_single_subject_wf without the return of lines 208-210: the scan's
\* nodes and its recon workflow are built whatever len(dwi_files) is
BeginSubjectNoReturn ==
    /\ pc = "subject"
    /\ pc' = "scan"
    /\ scan' = 1
    /\ UNCHANGED <<workflow_spec, inputs, first_build, i, build, err, subject_nodes>>

\* init_single_subject_wf up to its loop over dwi_files
BeginSubject ==
    /\ pc = "subject"
    /\ IF dwi_files = 0
       THEN pc' = "subject_done" /\ scan' = scan
       ELSE pc' = "scan" /\ scan' = 1
    /\ UNCHANGED <<workflow_spec, inputs, first_build, i, build, err, subject_nodes>>

\* one iteration of the loop, up to the call of init_dwi_recon_workflow, and
\* that function's first lines: a fresh Workflow, an inputnode not yet in it
BeginBuild ==
    /\ pc = "scan"
    /\ pc' = "resolve"
    /\ i' = 1
    /\ nodes_to_add' = <<>>
    /\ units' = <<>>
    /\ has_inputnode' = FALSE
    /\ conns' = {}
    /\ base_directory' = {}
    /\ checks' = 0
    /\ UNCHANGED <<workflow_spec, inputs, first_build, scan, err, subject_nodes>>

\* Pass 1, one node: the name test, then workflow_from_spec
ResolveNode ==
    /\ pc = "resolve"
    /\ i <= Len(workflow_spec)
    /\ LET node_spec == workflow_spec[i] IN
       IF node_spec.name = Absent
       THEN Raise("KeyError") /\ UNCHANGED <<workflow_spec, i, nodes_to_add>>
       ELSE IF node_spec.name = ""
       THEN Raise("NoName") /\ UNCHANGED <<workflow_spec, i, nodes_to_add>>
       ELSE /\ workflow_spec' =
                 [workflow_spec EXCEPT ![i] = NodeSpecAfter(node_spec, skip_odf_plots)]
            /\ IF WorkflowFromSpecError(node_spec) # "ok"
               THEN Raise(WorkflowFromSpecError(node_spec)) /\ UNCHANGED <<i, nodes_to_add>>
               ELSE /\ nodes_to_add' =
                         Append(nodes_to_add, WorkflowFromSpecUnit(node_spec, skip_odf_plots))
                    /\ i' = i + 1
                    /\ UNCHANGED <<pc, err>>
    /\ UNCHANGED <<inputs, first_build, scan, units, has_inputnode, conns, base_directory,
                   checks, subject_nodes>>

\* workflow.add_nodes(nodes_to_add); _check_repeats(workflow.list_node_names())
AddNodes ==
    /\ pc = "resolve"
    /\ i > Len(workflow_spec)
    /\ units' = nodes_to_add
    /\ checks' = checks + 1
    /\ IF _check_repeats(list_node_names(nodes_to_add, has_inputnode))
       THEN pc' = "route" /\ i' = 1 /\ err' = err
       ELSE Raise("DuplicateNodeName") /\ i' = i
    /\ UNCHANGED <<workflow_spec, inputs, first_build, scan, nodes_to_add, has_inputnode, conns,
                   base_directory, subject_nodes>>

\* Pass 2 as a builder that wires each node when it inserts it would run it:
\* only the nodes declared before node_spec are there to be found
RouteNodeOnePass ==
    /\ pc = "route"
    /\ i <= Len(workflow_spec)
    /\ LET node_spec   == workflow_spec[i]
           node_name   == node_spec.name
           node        == units[get_node(units, node_name)]
           up          == get_node(SubSeq(units, 1, i - 1), node_spec.input)
           from_up     == connect_from_upstream(BuilderOutputs(units[up].builder),
                                                BuilderInputs(node.builder))
           qsiprep     == QsiprepConnections(node_name, from_up)
           upstream    == UpstreamConnections(node_spec.input, node_name, from_up)
       IN
       IF IsGlobalInput(node_spec)
       THEN IF ConnectClash(conns, GlobalConnections(node_name))
            THEN Raise("DuplicateConnection")
                 /\ UNCHANGED <<i, has_inputnode, conns, checks>>
            ELSE /\ conns' = conns \cup GlobalConnections(node_name)
                 /\ has_inputnode' = TRUE
                 /\ i' = i + 1
                 /\ UNCHANGED <<pc, err, checks>>
       ELSE IF up = 0
       THEN Raise("AttributeError") /\ UNCHANGED <<i, has_inputnode, conns, checks>>
       ELSE IF ConnectClash(conns, qsiprep)
       THEN Raise("DuplicateConnection") /\ UNCHANGED <<i, has_inputnode, conns, checks>>
       ELSE IF ConnectClash(conns \cup qsiprep, upstream)
       THEN /\ Raise("DuplicateConnection")
            /\ conns' = conns \cup qsiprep
            /\ has_inputnode' = TRUE
            /\ checks' = checks + 1
            /\ i' = i
       ELSE /\ conns' = conns \cup qsiprep \cup upstream
            /\ has_inputnode' = TRUE
            /\ checks' = checks + 2
            /\ i' = i + 1
            /\ UNCHANGED <<pc, err>>
    /\ UNCHANGED <<workflow_spec, inputs, first_build, scan, nodes_to_add, units, base_directory,
                   subject_nodes>>

\* Pass 2, one node
RouteNode ==
    /\ pc = "route"
    /\ i <= Len(workflow_spec)
    /\ LET node_spec   == workflow_spec[i]
           node_name   == node_spec.name
           node        == units[get_node(units, node_name)]
           up          == get_node(units, node_spec.input)
           from_up     == connect_from_upstream(BuilderOutputs(units[up].builder),
                                                BuilderInputs(node.builder))
           qsiprep     == QsiprepConnections(node_name, from_up)
           upstream    == UpstreamConnections(node_spec.input, node_name, from_up)
       IN
       IF IsGlobalInput(node_spec)
       THEN IF ConnectClash(conns, GlobalConnections(node_name))
            THEN Raise("DuplicateConnection")
                 /\ UNCHANGED <<i, has_inputnode, conns, checks>>
            ELSE /\ conns' = conns \cup GlobalConnections(node_name)
                 /\ has_inputnode' = TRUE
                 /\ i' = i + 1
                 /\ UNCHANGED <<pc, err, checks>>
       ELSE IF up = 0
       THEN Raise("AttributeError") /\ UNCHANGED <<i, has_inputnode, conns, checks>>
       ELSE IF ConnectClash(conns, qsiprep)
       THEN Raise("DuplicateConnection") /\ UNCHANGED <<i, has_inputnode, conns, checks>>
       ELSE IF ConnectClash(conns \cup qsiprep, upstream)
       THEN /\ Raise("DuplicateConnection")
            /\ conns' = conns \cup qsiprep
            /\ has_inputnode' = TRUE
            /\ checks' = checks + 1
            /\ i' = i
       ELSE /\ conns' = conns \cup qsiprep \cup upstream
            /\ has_inputnode' = TRUE
            /\ checks' = checks + 2
            /\ i' = i + 1
            /\ UNCHANGED <<pc, err>>
    /\ UNCHANGED <<workflow_spec, inputs, first_build, scan, nodes_to_add, units, base_directory,
                   subject_nodes>>

\* the pass over workflow.list_node_names() that fills in the datasinks,
\* and the return
AttachSinks ==
    /\ pc = "route"
    /\ i > Len(workflow_spec)
    /\ LET names == Range(list_node_names(units, has_inputnode)) IN
       /\ base_directory' = SinkDirs(names)
       /\ IF ConnectClash(conns, SinkConnections(names))
          THEN Raise("DuplicateConnection") /\ UNCHANGED <<conns, has_inputnode>>
          ELSE /\ conns' = conns \cup SinkConnections(names)
               /\ has_inputnode' = (has_inputnode \/ SinkConnections(names) # {})
               /\ pc' = "returned"
               /\ err' = err
    /\ UNCHANGED <<workflow_spec, inputs, first_build, scan, i, nodes_to_add, units, checks,
                   subject_nodes>>

\* the scan's nodes as the subject workflow's connect takes them in
ScanNodes(k) ==
    {<<"anat_ingress_wf", 0>>, <<"ingressed_dwi_data", k>>, <<"anat_wf", k>>,
     <<"recon_inputs", k>>, <<"recon_wf", k>>}

\* workflow.connect([...]) of the loop body, then the next scan or the return
ConnectScan ==
    /\ pc = "returned"
    /\ subject_nodes' = subject_nodes \cup ScanNodes(scan)
    /\ IF scan < dwi_files
       THEN pc' = "scan" /\ scan' = scan + 1
       ELSE pc' = "subject_done" /\ scan' = scan
    /\ UNCHANGED <<workflow_spec, inputs, first_build, i, build, err>>

Next ==
    \/ BeginSubject
    \/ BeginBuild
    \/ ResolveNode
    \/ AddNodes
    \/ RouteNode
    \/ AttachSinks
    \/ ConnectScan

Spec == Init /\ [][Next]_vars

\* the orders workflow_spec['nodes'] can be written in
NodeOrders(n) ==
    {p \in [1..n -> 1..n] : \A a, b \in 1..n : p[a] = p[b] => a = b}

\* init_dwi_recon_workflow has returned; it is called again with the same
\* nodes, loaded afresh and listed in another order
Rebuild ==
    /\ pc = "returned"
    /\ ~first_build.done
    /\ first_build' = [done |-> TRUE, nodes |-> loaded_spec,
                       units |-> Range(units), conns |-> conns]
    /\ \E p \in NodeOrders(Len(loaded_spec)) :
          loaded_spec' = [k \in 1..Len(loaded_spec) |-> loaded_spec[p[k]]]
    /\ workflow_spec' = loaded_spec'
    /\ pc' = "scan"
    /\ UNCHANGED <<skip_odf_plots, dwi_files, scan, i, build, err, subject_nodes>>

\* one scan, whose recon workflow is built twice
InitOrder == Init /\ dwi_files = 1

NextOrder ==
    \/ BeginSubject
    \/ BeginBuild
    \/ ResolveNode
    \/ AddNodes
    \/ RouteNode
    \/ AttachSinks
    \/ Rebuild

SpecOrder == InitOrder /\ [][NextOrder]_vars

-----------------------------------------------------------------------------
(* What the claims speak of.                                                *)

Positions == 1..Len(loaded_spec)

\* the node has a usable name and a registered (software, action)
Resolvable(node_spec) ==
    /\ node_spec.name \notin {Absent, ""}
    /\ WorkflowFromSpecError(node_spec) = "ok"

AllResolvable == \A k \in Positions : Resolvable(loaded_spec[k])

UniqueNames ==
    \A j, k \in Positions : j # k => loaded_spec[j].name # loaded_spec[k].name

NoDangling ==
    \A k \in Positions :
        \/ IsGlobalInput(loaded_spec[k])
        \/ \E j \in Positions : loaded_spec[j].name = loaded_spec[k].input

\* the nodes routed from a named upstream node
UpstreamRouted == {k \in Positions : ~IsGlobalInput(loaded_spec[k])}

\* the connections into a unit
Into(name) == {c \in conns : c.dst = name}

Wire(srcnode, srcSlot, destnode, dstSlot) ==
    [src |-> srcnode, srcSlot |-> srcSlot, dst |-> destnode, dstSlot |-> dstSlot]

-----------------------------------------------------------------------------
\* C1: for every spec with pairwise distinct node names and no dangling input
\* (its nodes resolvable), the build does not fail and the returned pipeline
\* holds exactly len(spec.nodes) units plus the global source inputnode, the
\* empty spec included.
C1_Claim ==
    (AllResolvable /\ UniqueNames /\ NoDangling) =>
        /\ pc # "failed"
        /\ pc = "returned" => Len(units) = Len(loaded_spec) /\ has_inputnode

\* C2 (as stated): the uniqueness check runs exactly once in a build.
C2_Original == pc = "returned" => checks = 1

\* C2 (amended): a spec with two nodes of one name fails in _check_repeats,
\* after all insertions and before any connection, and returns no pipeline;
\* the first check sits between the two passes, and the check runs again
\* after each of the two connect calls of every upstream-routed node.
C2_Theorem ==
    /\ (AllResolvable /\ ~UniqueNames) =>
          /\ pc \notin {"route", "returned"}
          /\ pc = "failed" =>
                err = "DuplicateNodeName" /\ checks = 1 /\ conns = {}
                /\ Len(units) = Len(loaded_spec)
    /\ (pc = "route" /\ i = 1) => checks = 1 /\ conns = {}
    /\ pc = "returned" => checks = 1 + 2 * Cardinality(UpstreamRouted)

C2_Witness ==
    /\ pc = "failed" /\ err = "DuplicateNodeName"
    /\ AllResolvable /\ ~UniqueNames /\ checks = 1

\* C3 (as stated): a node routed from the global source has exactly one
\* connection global.s -> node.s for every input slot s it declares.
C3_Original ==
    pc = "returned" =>
        \A k \in Positions :
            IsGlobalInput(loaded_spec[k]) =>
                Into(loaded_spec[k].name) =
                    {Wire("inputnode", s, loaded_spec[k].name, "inputnode." \o s) :
                        s \in BuilderInputs(units[k].builder)}

\* C3 (amended): a node routed from the global source has exactly one
\* connection global.s -> node.inputnode.s for every field s of
\* recon_workflow_input_fields, declared by the node or not, and none from
\* any other unit.
C3_Theorem ==
    pc = "returned" =>
        \A k \in Positions :
            IsGlobalInput(loaded_spec[k]) =>
                Into(loaded_spec[k].name) =
                    {Wire("inputnode", s, loaded_spec[k].name, "inputnode." \o s) :
                        s \in recon_workflow_input_fields}

C3_Witness ==
    /\ pc = "returned"
    /\ \E k \in Positions :
          /\ IsGlobalInput(loaded_spec[k])
          /\ BuilderInputs(units[k].builder) \ recon_workflow_input_fields # {}
          /\ recon_workflow_input_fields \ BuilderInputs(units[k].builder) # {}
          /\ Into(loaded_spec[k].name) # {}

\* the unit a node's input names (names are unique once Pass 2 runs)
UpstreamOf(k) ==
    units[CHOOSE j \in Positions : loaded_spec[j].name = loaded_spec[k].input]

\* the slots node k takes from the unit it names
FromUpstream(k) ==
    BuilderOutputs(UpstreamOf(k).builder) \cap BuilderInputs(units[k].builder)

\* Pass 2 has dealt with node k
Routed(k) == pc = "returned" \/ (pc = "route" /\ k < i)

\* C4: for a node whose input names an upstream node U, the router creates
\* exactly U.s -> node.s for every s that U outputs and the node declares,
\* and global.s -> node.s for every s of default_input_set outside that
\* intersection, whether the node declares s or not.
C4_Theorem ==
    \A k \in UpstreamRouted :
        Routed(k) =>
            Into(loaded_spec[k].name) =
                {Wire(loaded_spec[k].input, "outputnode." \o s,
                      loaded_spec[k].name, "inputnode." \o s) : s \in FromUpstream(k)}
                \cup
                {Wire("inputnode", s, loaded_spec[k].name, "inputnode." \o s) :
                    s \in default_input_set \ FromUpstream(k)}

\* a default slot the node does not declare is wired from the global source,
\* next to one it takes from upstream and an upstream output it leaves alone
C4_Witness ==
    /\ pc = "returned"
    /\ \E k \in UpstreamRouted :
          /\ \E s \in default_input_set \ BuilderInputs(units[k].builder) :
                Wire("inputnode", s, loaded_spec[k].name, "inputnode." \o s) \in conns
          /\ FromUpstream(k) # {}
          /\ BuilderOutputs(UpstreamOf(k).builder) \ BuilderInputs(units[k].builder) # {}

C6_Claim ==
    (AllResolvable /\ UniqueNames /\ ~NoDangling) =>
        /\ pc # "returned"
        /\ pc = "failed" => err = "UnresolvedNode"

\* the backends workflow_from_spec names, and the default
KnownSoftware == {"DSI Studio", "MRTrix3", "Dipy", "AMICO", "pyAFQ", "qsiprep"}

\* a node the resolver is to reject
Rejectable(node_spec) ==
    \/ node_spec.name \in {Absent, ""}
    \/ node_spec.action = Absent
    \/ GetOr(node_spec.software, "qsiprep") \notin KnownSoftware
    \/ Dispatch(GetOr(node_spec.software, "qsiprep"), node_spec.action) = None

\* C7: a node whose (software, action), software defaulting to qsiprep,
\* matches no registered builder, whose software is none of the known
\* backends, or whose name is missing or empty, is never built, and a spec
\* holding one returns no pipeline.
C7_Claim ==
    /\ \A k \in 1..Len(nodes_to_add) : ~Rejectable(loaded_spec[k])
    /\ (\E k \in Positions : Rejectable(loaded_spec[k])) =>
           pc \notin {"route", "returned"}

\* C8: with skip_odf_plots set every unit is built with plot_reports = False,
\* and the parameters stored in the spec stay what they were when loaded.
C8_Claim ==
    /\ skip_odf_plots =>
          \A k \in 1..Len(nodes_to_add) :
              <<"plot_reports", FALSE>> \in nodes_to_add[k].params
    /\ workflow_spec = loaded_spec

\* C9: a node is a sink iff the last dot-separated component of its name
\* starts with 'ds'; every sink, and no other node, gets a base_directory:
\* reportlets_dir if the component contains 'report', output_dir otherwise;
\* source_file is wired from the global dwi_file iff the component starts
\* with 'ds_'.
C9_Theorem ==
    pc = "returned" =>
        /\ \A n \in Range(list_node_names(units, has_inputnode)) :
              LET comp == LastComponent(n)
                  dir  == IF Contains(comp, "report") THEN "reportlets_dir"
                                                      ELSE "output_dir"
              IN  /\ {b \in base_directory : b[1] = n} =
                        IF StartsWith(comp, "ds") THEN {<<n, dir>>} ELSE {}
                  /\ {c \in conns : c.dst = n /\ c.dstSlot = "source_file"} =
                        IF StartsWith(comp, "ds_")
                        THEN {Wire("inputnode", "dwi_file", n, "source_file")}
                        ELSE {}
        /\ \A b \in base_directory :
              b[1] \in Range(list_node_names(units, has_inputnode))

C9_Witness ==
    /\ pc = "returned"
    /\ <<"n2.dsreport", "reportlets_dir">> \in base_directory
    /\ <<"n2.ds_report_odfs", "reportlets_dir">> \in base_directory
    /\ <<"n1.ds_conformed", "output_dir">> \in base_directory
    /\ Wire("inputnode", "dwi_file", "n2.ds_report_odfs", "source_file") \in conns
    /\ Wire("inputnode", "dwi_file", "n2.dsreport", "source_file") \notin conns
    /\ \A b \in base_directory : b[1] # "n1.plot_report"

\* the pairs <<a, b>> with a path from a to b along the connections
RECURSIVE Paths(_)
Paths(R) ==
    LET step == R \cup {<<pq[1][1], pq[2][2]>> :
                            pq \in {x \in R \X R : x[1][2] = x[2][1]}}
    IN  IF step = R THEN R ELSE Paths(step)

\* a connection's endpoint is a unit, a node inside one, or the global source
Members ==
    {units[k].name : k \in 1..Len(units)}
        \cup Range(list_node_names(units, has_inputnode))

\* C10: the connection graph of every returned pipeline has no cycle and no
\* edge with an endpoint outside the pipeline.
C10_Claim ==
    pc = "returned" =>
        /\ \A p \in Paths({<<c.src, c.dst>> : c \in conns}) : p[1] # p[2]
        /\ \A c \in conns : c.src \in Members /\ c.dst \in Members

\* C11: the result of a build does not depend on the order of the nodes.
\* Once a spec has built, the build of any permutation of its nodes does not
\* fail, and what it returns has the same set of units and the same set of
\* connections; while nodes are still being resolved and inserted (Pass 1)
\* the workflow under construction has no connection, so a node's input can
\* name a node declared after it.
C11_Theorem ==
    /\ pc = "resolve" => conns = {}
    /\ first_build.done =>
          /\ pc # "failed"
          /\ pc = "returned" =>
                /\ Range(units) = first_build.units
                /\ conns = first_build.conns

\* a spec built in one order and in another, in which the first node takes
\* its input from the node declared after it
C11_Witness ==
    /\ pc = "returned"
    /\ first_build.done
    /\ first_build.nodes # loaded_spec
    /\ Len(loaded_spec) = 2
    /\ loaded_spec[1].input = loaded_spec[2].name
    /\ loaded_spec[1].name # loaded_spec[2].name
    /\ \E c \in conns : c.src = loaded_spec[2].name
                          /\ c.dst = loaded_spec[1].name

\* C12: with no scan matching the spec's space, init_single_subject_wf
\* returns without an error a workflow with no ingress, anatomical or recon
\* node; no recon workflow is begun, no node spec is resolved (or written
\* to), no unit is made and no name check is run.
C12_Theorem ==
    dwi_files = 0 =>
        /\ pc \in {"subject", "subject_done"}
        /\ err = "none"
        /\ subject_nodes = {}
        /\ scan = 0
        /\ i = 0
        /\ nodes_to_add = <<>>
        /\ units = <<>>
        /\ ~has_inputnode
        /\ conns = {}
        /\ checks = 0
        /\ workflow_spec = loaded_spec

\* the subject's workflow is returned for a spec that has nodes to build,
\* one of them not resolvable
C12_Witness ==
    /\ pc = "subject_done"
    /\ dwi_files = 0
    /\ Len(loaded_spec) = 2
    /\ ~AllResolvable

====
